---- MODULE Spec2Model ----
(***************************************************************************)
(* Trapezoidal anti-aliasing sweep of CHwRasterizer (hwrasterizer.rs).     *)
(*                                                                         *)
(* The active edge list is a sequence of edge records in list order; the   *)
(* head and tail sentinels are the two ends of the sequence, so the test   *)
(* "pEdge->EndY != INT_MIN" of the source is an index test here.           *)
(* INT is a signed 32-bit integer: the INT products of the source are      *)
(* computed with wrap-around (I32Mul, I32Add).  Int32x32To64 products are  *)
(* exact.  assert!/Assert are proof obligations, not control flow: the     *)
(* operators return what the arithmetic returns and the obligations are    *)
(* stated as separate predicates.                                          *)
(***************************************************************************)
EXTENDS Integers, Sequences, FiniteSets, TLC

----------------------------------------------------------------------------
(* Program constants *)

c_nShift == 3
c_nShiftSize == 8
c_nShiftMask == 7
c_nHalfShiftSize == 4
INT_MAX == 2147483647
INT_MIN == (-2147483647) - 1
TwoTo30 == 1073741824

----------------------------------------------------------------------------
(* Signed 32-bit arithmetic *)

\* a + b in INT, wrapping modulo 2^32
I32Add(a, b) ==
    IF a >= 0 /\ b >= 0 /\ a > INT_MAX - b
    THEN ((a - TwoTo30) - TwoTo30) + ((b - TwoTo30) - TwoTo30)
    ELSE IF a < 0 /\ b < 0 /\ a < INT_MIN - b
    THEN ((a + TwoTo30) + TwoTo30) + ((b + TwoTo30) + TwoTo30)
    ELSE a + b

\* the low and the high 16 bits of an INT
LoWord(a) == a % 65536
HiWord(a) == (a \div 65536) % 65536

\* the low and the high 16 bits of x * y, for x and y in 0..65535
Mul16Lo(x, y) == ((x % 256) * y + (((x \div 256) * y) % 256) * 256) % 65536
Mul16Hi(x, y) ==
    (((x % 256) * y) \div 65536) + (((x \div 256) * y) \div 256)
    + (((((x % 256) * y) % 65536) + (((x \div 256) * y) % 256) * 256) \div 65536)

\* the high 16 bits of the low 32 bits of a * b
I32MulHi(a, b) ==
    (Mul16Hi(LoWord(a), LoWord(b)) + Mul16Lo(HiWord(a), LoWord(b))
     + Mul16Lo(LoWord(a), HiWord(b))) % 65536

\* a * b in INT, wrapping modulo 2^32
I32Mul(a, b) ==
    IF I32MulHi(a, b) >= 32768
    THEN (I32MulHi(a, b) - 65536) * 65536 + Mul16Lo(LoWord(a), LoWord(b))
    ELSE I32MulHi(a, b) * 65536 + Mul16Lo(LoWord(a), LoWord(b))

\* a / b of the source: the quotient truncated toward zero (b > 0)
TruncDiv(a, b) == IF a >= 0 THEN a \div b ELSE (a + (b - 1)) \div b

abs(a) == IF a < 0 THEN -a ELSE a

min(a, b) == IF a < b THEN a ELSE b

\* the exact 64-bit product
Int32x32To64(a, b) == a * b

----------------------------------------------------------------------------
(* Fraction comparisons *)

IsFractionGreaterThan(nNumeratorA, nDenominatorA, nNumeratorB, nDenominatorB) ==
    Int32x32To64(nNumeratorA, nDenominatorB) > Int32x32To64(nNumeratorB, nDenominatorA)

IsFractionLessThanFlipped(nNumeratorA, nDenominatorA, nNumeratorB, nDenominatorB) ==
    Int32x32To64(nNumeratorA, nDenominatorB) > Int32x32To64(nNumeratorB, nDenominatorA)

IsFractionLessThan(nNumeratorA, nDenominatorA, nNumeratorB, nDenominatorB) ==
    Int32x32To64(nNumeratorA, nDenominatorB) < Int32x32To64(nNumeratorB, nDenominatorA)

----------------------------------------------------------------------------
(* The DDA *)

\* one edge of AdvanceDDAMultipleSteps (the source repeats the block for the
\* left and the right edge): x is X + nSubpixelYAdvance*Dx, e the 64-bit
\* error Error + nSubpixelYAdvance*ErrorUp
AdvanceCarryNoBias(pEdge, x, e) ==
    IF e >= 0
    THEN [X     |-> I32Add(x, e \div pEdge.ErrorDown),
          Error |-> e - Int32x32To64(pEdge.ErrorDown, e \div pEdge.ErrorDown)]
    ELSE [X |-> x, Error |-> e]

AdvanceCarry(pEdge, x, e) ==
    IF e >= 0
    THEN [X     |-> I32Add(x, (e \div pEdge.ErrorDown) + 1),
          Error |-> e - Int32x32To64(pEdge.ErrorDown, (e \div pEdge.ErrorDown) + 1)]
    ELSE [X |-> x, Error |-> e]

AdvanceEdgeOneDx(pEdge, nSubpixelYAdvance) ==
    AdvanceCarry(pEdge,
                 I32Add(pEdge.X, pEdge.Dx),
                 pEdge.Error + Int32x32To64(nSubpixelYAdvance, pEdge.ErrorUp))

AdvanceEdge(pEdge, nSubpixelYAdvance) ==
    AdvanceCarry(pEdge,
                 I32Add(pEdge.X, I32Mul(nSubpixelYAdvance, pEdge.Dx)),
                 pEdge.Error + Int32x32To64(nSubpixelYAdvance, pEdge.ErrorUp))

PairOf(l, r) ==
    [nSubpixelXLeftBottom      |-> l.X,
     nSubpixelErrorLeftBottom  |-> l.Error,
     nSubpixelXRightBottom     |-> r.X,
     nSubpixelErrorRightBottom |-> r.Error]

AdvanceDDAMultipleSteps(pEdgeLeft, pEdgeRight, nSubpixelYAdvance) ==
    PairOf(AdvanceEdge(pEdgeLeft, nSubpixelYAdvance),
           AdvanceEdge(pEdgeRight, nSubpixelYAdvance))

\* the assertion on the error AdvanceDDAMultipleSteps hands back
AdvanceErrorAssertion(pEdge, llSubpixelErrorBottom) ==
    (llSubpixelErrorBottom > -pEdge.ErrorDown) /\ (llSubpixelErrorBottom < 0)

\* one sub-scanline step of the DDA
AdvanceDDA(pEdge) ==
    IF pEdge.Error + pEdge.ErrorUp >= 0
    THEN [pEdge EXCEPT !.X = pEdge.X + pEdge.Dx + 1,
                       !.Error = pEdge.Error + pEdge.ErrorUp - pEdge.ErrorDown]
    ELSE [pEdge EXCEPT !.X = pEdge.X + pEdge.Dx,
                       !.Error = pEdge.Error + pEdge.ErrorUp]

RECURSIVE AdvanceDDASteps(_, _)
AdvanceDDASteps(pEdge, n) ==
    IF n = 0 THEN pEdge ELSE AdvanceDDASteps(AdvanceDDA(pEdge), n - 1)

----------------------------------------------------------------------------
(* Delta and distance bounds *)

ComputeDeltaUpperBound(pEdge, nSubpixelYAdvance) ==
    IF pEdge.ErrorUp = 0
    THEN I32Mul(nSubpixelYAdvance, abs(pEdge.Dx))
    ELSE IF pEdge.Dx >= 0
    THEN I32Add(I32Add(I32Mul(nSubpixelYAdvance, pEdge.Dx),
                       TruncDiv(I32Mul(nSubpixelYAdvance, pEdge.ErrorUp),
                                pEdge.ErrorDown)),
                1)
    ELSE I32Add(I32Add(I32Mul(nSubpixelYAdvance, (-pEdge.Dx) - 1),
                       TruncDiv(I32Mul(nSubpixelYAdvance,
                                       (-pEdge.ErrorUp) + pEdge.ErrorDown),
                                pEdge.ErrorDown)),
                1)

ComputeDistanceLowerBoundLess(pEdgeLeft, pEdgeRight) ==
    pEdgeRight.X - pEdgeLeft.X - 1

ComputeDistanceLowerBound(pEdgeLeft, pEdgeRight) ==
    IF IsFractionLessThan(pEdgeRight.Error + 1, pEdgeRight.ErrorDown,
                          pEdgeLeft.Error + 1, pEdgeLeft.ErrorDown)
    THEN pEdgeRight.X - pEdgeLeft.X - 1
    ELSE pEdgeRight.X - pEdgeLeft.X

----------------------------------------------------------------------------
(* Trapezoid recognizer *)

Alternate == "Alternate"
Winding == "Winding"

\* the winding guard: TRUE when some pair (1st-2nd, 3rd-4th, ...) has both
\* edges of the same WindingDirection
RECURSIVE WindingPairsEqual(_, _)
WindingPairsEqual(list, i) ==
    IF i + 1 > Len(list) THEN FALSE
    ELSE IF list[i].WindingDirection = list[i + 1].WindingDirection THEN TRUE
    ELSE WindingPairsEqual(list, i + 2)

EdgesConvergeNever(pEdgeLeft, pEdgeRight) == FALSE

\* the edges converge
EdgesConverge(pEdgeLeft, pEdgeRight) ==
    \/ pEdgeLeft.Dx > pEdgeRight.Dx
    \/ /\ pEdgeLeft.Dx = pEdgeRight.Dx
       /\ IsFractionGreaterThan(pEdgeLeft.ErrorUp, pEdgeLeft.ErrorDown,
                                pEdgeRight.ErrorUp, pEdgeRight.ErrorDown)

ExpandDistanceUpperBound(pEdgeLeft, pEdgeRight) ==
    c_nShiftSize
    + ComputeDeltaUpperBound(pEdgeLeft, c_nHalfShiftSize)
    + ComputeDeltaUpperBound(pEdgeRight, c_nHalfShiftSize)

\* snap to the pixel boundary: y & ~c_nShiftMask
SnapToPixelNever(y) == y

SnapToPixel(y) == y - (y % c_nShiftSize)

\* The loop over the edges from position i on; yB is
\* nSubpixelYBottomTrapezoids.  One operator per stage of the loop body, each
\* stage handing the values it computed to the next.
RECURSIVE EndScanLoop(_, _, _, _)

\* the shortened bottom yB: give up below one scanline, else the next edge
EndScanShortened(list, i, nSubpixelYCurrent, yB) ==
    IF yB < nSubpixelYCurrent + c_nShiftSize
    THEN nSubpixelYCurrent
    ELSE EndScanLoop(list, i + 1, nSubpixelYCurrent, yB)

EndScanBottomNoShorten(list, i, nSubpixelYCurrent, yB, nTop, xLeftAdj, xRight) ==
    EndScanLoop(list, i + 1, nSubpixelYCurrent, yB)

\* the converging pair advanced to yB: xLeftAdj is
\* nSubpixelXLeftAdjustedBottom, xRight is nSubpixelXRightBottom
EndScanBottom(list, i, nSubpixelYCurrent, yB, nTop, xLeftAdj, xRight) ==
    IF xLeftAdj >= xRight
    THEN EndScanShortened(list, i, nSubpixelYCurrent,
             nSubpixelYCurrent
             + TruncDiv(I32Mul(yB - nSubpixelYCurrent, nTop),
                        nTop + (xLeftAdj - xRight + 1)))
    ELSE EndScanLoop(list, i + 1, nSubpixelYCurrent, yB)

\* the pair list[i], list[i+1]: nExpand is nSubpixelExpandDistanceUpperBound,
\* nTop is nSubpixelXTopDistanceLowerBound, a the pair advanced to yB
EndScanPair(list, i, nSubpixelYCurrent, yB, nExpand, nTop, a) ==
    IF nTop < 0
    THEN nSubpixelYCurrent
    ELSE IF EdgesConverge(list[i], list[i + 1])
    THEN EndScanBottom(list, i, nSubpixelYCurrent, yB, nTop,
                       a.nSubpixelXLeftBottom + nExpand, a.nSubpixelXRightBottom)
    ELSE EndScanLoop(list, i + 1, nSubpixelYCurrent, yB)

\* the edge list[i] with yB already lowered to its EndY
EndScanEdge(list, i, nSubpixelYCurrent, yB, nExpand) ==
    EndScanPair(list, i, nSubpixelYCurrent, yB, nExpand,
                ComputeDistanceLowerBound(list[i], list[i + 1]) - nExpand,
                AdvanceDDAMultipleSteps(list[i], list[i + 1], yB - nSubpixelYCurrent))

EndScanLoop(list, i, nSubpixelYCurrent, yB) ==
    IF i > Len(list)
    THEN SnapToPixel(yB)
    ELSE IF i = Len(list)
    THEN EndScanLoop(list, i + 1, nSubpixelYCurrent, min(yB, list[i].EndY))
    ELSE EndScanEdge(list, i, nSubpixelYCurrent, min(yB, list[i].EndY),
                     ExpandDistanceUpperBound(list[i], list[i + 1]))

ComputeTrapezoidsEndScanUnguarded(list, nSubpixelYCurrent, nSubpixelYNextInactive, fillMode) ==
    EndScanLoop(list, 1, nSubpixelYCurrent, nSubpixelYNextInactive)

\* the recognizer: the sub-scanline the trapezoids of the list can run to
ComputeTrapezoidsEndScan(list, nSubpixelYCurrent, nSubpixelYNextInactive, fillMode) ==
    IF fillMode = Winding /\ WindingPairsEqual(list, 1)
    THEN nSubpixelYCurrent
    ELSE EndScanLoop(list, 1, nSubpixelYCurrent, nSubpixelYNextInactive)

\* a call of AdvanceDDAMultipleSteps
AdvanceCall(pEdgeLeft, pEdgeRight, nSubpixelYAdvance) ==
    [pEdgeLeft |-> pEdgeLeft, pEdgeRight |-> pEdgeRight,
     nSubpixelYAdvance |-> nSubpixelYAdvance]

\* The calls of AdvanceDDAMultipleSteps that the loop over the edges makes
\* from position i on, in order: the stages of EndScanLoop, each returning the
\* calls made from there to the function's return
RECURSIVE EndScanCallsLoop(_, _, _, _)

EndScanCallsShortened(list, i, nSubpixelYCurrent, yB) ==
    IF yB < nSubpixelYCurrent + c_nShiftSize
    THEN << >>
    ELSE EndScanCallsLoop(list, i + 1, nSubpixelYCurrent, yB)

EndScanCallsBottom(list, i, nSubpixelYCurrent, yB, nTop, xLeftAdj, xRight) ==
    IF xLeftAdj >= xRight
    THEN EndScanCallsShortened(list, i, nSubpixelYCurrent,
             nSubpixelYCurrent
             + TruncDiv(I32Mul(yB - nSubpixelYCurrent, nTop),
                        nTop + (xLeftAdj - xRight + 1)))
    ELSE EndScanCallsLoop(list, i + 1, nSubpixelYCurrent, yB)

EndScanCallsAdvanced(list, i, nSubpixelYCurrent, yB, nExpand, nTop, a) ==
    EndScanCallsBottom(list, i, nSubpixelYCurrent, yB, nTop,
                       a.nSubpixelXLeftBottom + nExpand, a.nSubpixelXRightBottom)

EndScanCallsPair(list, i, nSubpixelYCurrent, yB, nExpand, nTop) ==
    IF nTop < 0
    THEN << >>
    ELSE IF EdgesConverge(list[i], list[i + 1])
    THEN << AdvanceCall(list[i], list[i + 1], yB - nSubpixelYCurrent) >>
         \o EndScanCallsAdvanced(list, i, nSubpixelYCurrent, yB, nExpand, nTop,
                AdvanceDDAMultipleSteps(list[i], list[i + 1], yB - nSubpixelYCurrent))
    ELSE EndScanCallsLoop(list, i + 1, nSubpixelYCurrent, yB)

EndScanCallsEdge(list, i, nSubpixelYCurrent, yB, nExpand) ==
    EndScanCallsPair(list, i, nSubpixelYCurrent, yB, nExpand,
                     ComputeDistanceLowerBound(list[i], list[i + 1]) - nExpand)

EndScanCallsLoop(list, i, nSubpixelYCurrent, yB) ==
    IF i >= Len(list)
    THEN << >>
    ELSE EndScanCallsEdge(list, i, nSubpixelYCurrent, min(yB, list[i].EndY),
                          ExpandDistanceUpperBound(list[i], list[i + 1]))

\* the calls of AdvanceDDAMultipleSteps made by ComputeTrapezoidsEndScan
ComputeTrapezoidsEndScanCalls(list, nSubpixelYCurrent, nSubpixelYNextInactive, fillMode) ==
    IF fillMode = Winding /\ WindingPairsEqual(list, 1)
    THEN << >>
    ELSE EndScanCallsLoop(list, 1, nSubpixelYCurrent, nSubpixelYNextInactive)

----------------------------------------------------------------------------
(* Trapezoid emitter *)

\* the trapezoid of the pair list[i], list[i+1]; an x is kept as the triple
\* (X, Error, ErrorDown) that ConvertSubpixelXToPixel divides out, a y as the
\* sub-scanline that ConvertSubpixelYToPixel divides by the shift size, an
\* expand distance 0.5 + 0.5*|Dx + ErrorUp/ErrorDown| as (Num, Den) with
\* Num/Den the absolute inverse slope (the distance is 0.5 + 0.5*Num/Den)
TrapezoidOf(pEdgeLeft, pEdgeRight, nSubpixelYCurrent, nSubpixelYNext, a) ==
    [yTop        |-> nSubpixelYCurrent,
     yBottom     |-> nSubpixelYNext,
     xTopLeft    |-> [X |-> pEdgeLeft.X, Error |-> pEdgeLeft.Error,
                      ErrorDown |-> pEdgeLeft.ErrorDown],
     xTopRight   |-> [X |-> pEdgeRight.X, Error |-> pEdgeRight.Error,
                      ErrorDown |-> pEdgeRight.ErrorDown],
     xBottomLeft |-> [X |-> a.nSubpixelXLeftBottom,
                      Error |-> a.nSubpixelErrorLeftBottom,
                      ErrorDown |-> pEdgeLeft.ErrorDown],
     xBottomRight |-> [X |-> a.nSubpixelXRightBottom,
                       Error |-> a.nSubpixelErrorRightBottom,
                       ErrorDown |-> pEdgeRight.ErrorDown],
     leftAbsInvSlope  |-> [Num |-> abs(pEdgeLeft.Dx * pEdgeLeft.ErrorDown
                                       + pEdgeLeft.ErrorUp),
                           Den |-> pEdgeLeft.ErrorDown],
     rightAbsInvSlope |-> [Num |-> abs(pEdgeRight.Dx * pEdgeRight.ErrorDown
                                       + pEdgeRight.ErrorUp),
                           Den |-> pEdgeRight.ErrorDown]]

Trapezoid(pEdgeLeft, pEdgeRight, nSubpixelYCurrent, nSubpixelYNext) ==
    TrapezoidOf(pEdgeLeft, pEdgeRight, nSubpixelYCurrent, nSubpixelYNext,
                AdvanceDDAMultipleSteps(pEdgeLeft, pEdgeRight,
                                        nSubpixelYNext - nSubpixelYCurrent))

UpdateEdgeAndDx(pEdge, x) == [pEdge EXCEPT !.X = x.X, !.Error = x.Error, !.Dx = 0]

\* the edge with the X and Error of the trapezoid's bottom
UpdateEdge(pEdge, x) == [pEdge EXCEPT !.X = x.X, !.Error = x.Error]

\* OutputTrapezoids: the trapezoids handed to AddTrapezoid, in order, and the
\* edge list with every edge moved to nSubpixelYNext
TrapezoidsCons(list, i, t, rest) ==
    [traps |-> <<t>> \o rest.traps,
     list  |-> << UpdateEdge(list[i], t.xBottomLeft),
                  UpdateEdge(list[i + 1], t.xBottomRight) >> \o rest.list]

\* a loop that stops after the first pair
OutputTrapezoidsFirstPair(list, i, nSubpixelYCurrent, nSubpixelYNext) ==
    IF i + 1 > Len(list)
    THEN [traps |-> << >>, list |-> << >>]
    ELSE TrapezoidsCons(list, i,
             Trapezoid(list[i], list[i + 1], nSubpixelYCurrent, nSubpixelYNext),
             [traps |-> << >>, list |-> SubSeq(list, i + 2, Len(list))])

RECURSIVE OutputTrapezoidsLoop(_, _, _, _)
OutputTrapezoidsLoop(list, i, nSubpixelYCurrent, nSubpixelYNext) ==
    IF i + 1 > Len(list)
    THEN [traps |-> << >>, list |-> << >>]
    ELSE TrapezoidsCons(list, i,
             Trapezoid(list[i], list[i + 1], nSubpixelYCurrent, nSubpixelYNext),
             OutputTrapezoidsLoop(list, i + 2, nSubpixelYCurrent, nSubpixelYNext))

OutputTrapezoids(list, nSubpixelYCurrent, nSubpixelYNext) ==
    OutputTrapezoidsLoop(list, 1, nSubpixelYCurrent, nSubpixelYNext)

\* the calls of AdvanceDDAMultipleSteps made by OutputTrapezoids: one for
\* every pair of the list
OutputTrapezoidsCalls(list, nSubpixelYCurrent, nSubpixelYNext) ==
    [k \in 1..(Len(list) \div 2) |->
        AdvanceCall(list[2 * k - 1], list[2 * k], nSubpixelYNext - nSubpixelYCurrent)]

----------------------------------------------------------------------------
(* Path enumeration and the edge lists *)

\* bounds of the input paths: the vertices lie on a grid of sub-pixel
\* coordinates; a second subpath is a copy of the first, moved
XStep == 20
YStep == 12
MaxXIdx == 2
MaxYIdx == 2
ShiftX == 8
ShiftY == 3
GapY == 5

Points == { [x |-> i * XStep, y |-> j * YStep] : i \in 0..MaxXIdx, j \in 0..MaxYIdx }

Corners == { [x |-> i * MaxXIdx * XStep, y |-> j * MaxYIdx * YStep] :
             i \in 0..1, j \in 0..1 }

\* the largest pixel coordinate of the rectangles on whole pixels
MaxPixel == 2

\* the rectangles with corners on whole pixels
PixelRects ==
    { << [x |-> l * c_nShiftSize, y |-> t * c_nShiftSize],
         [x |-> r * c_nShiftSize, y |-> t * c_nShiftSize],
         [x |-> r * c_nShiftSize, y |-> b * c_nShiftSize],
         [x |-> l * c_nShiftSize, y |-> b * c_nShiftSize] >> :
      l \in 0..MaxPixel, r \in 0..MaxPixel, t \in 0..MaxPixel, b \in 0..MaxPixel }

Quadrilaterals ==
    { <<a, b, c, d>> : a \in Corners, b \in Corners, c \in Corners, d \in Corners }

\* closed subpaths: every triangle of the grid, every quadrilateral of its
\* corners
Subpaths ==
    { <<a, b, c>> : a \in Points, b \in Points, c \in Points }
    \cup Quadrilaterals

Moved(subpath, dx, dy) ==
    [k \in 1..Len(subpath) |-> [x |-> subpath[k].x + dx, y |-> subpath[k].y + dy]]

\* the paths rasterized: one subpath, or a subpath and its copy, either
\* overlapping it or below it
Paths ==
    { <<s>> : s \in Subpaths }
    \cup { <<s, Moved(s, ShiftX, ShiftY)>> : s \in Subpaths }
    \cup { <<s, Moved(s, 0, MaxYIdx * YStep + GapY)>> : s \in Subpaths }

\* the largest coordinate of an edge point in sub-pixel space
TwoTo26 == 67108864

\* bounds of the notched strips: the notch starts on one of the first
\* MaxNotch pixel rows, and its sides have a Dx of up to 3 * 64^MaxSteep
MaxNotch == 2
MaxSteep == 1

RECURSIVE NotchDx(_)
NotchDx(s) == IF s = 0 THEN 1 ELSE 64 * NotchDx(s - 1)

NotchDepth == 2 * c_nShiftSize
NotchApexX == 8 * c_nShiftSize
NotchLeft(m) == NotchApexX + NotchDepth * m
NotchRight(m) == NotchApexX + NotchDepth * 3 * m
StripRight(m) == NotchRight(m) + NotchDepth * m + NotchApexX

\* a strip from yTop down to the largest coordinate
Strip(yTop, m) ==
    << [x |-> 0, y |-> yTop], [x |-> StripRight(m), y |-> yTop],
       [x |-> StripRight(m), y |-> TwoTo26], [x |-> 0, y |-> TwoTo26] >>

\* a triangle with a horizontal top on pixel row k and its apex NotchDepth
\* lower and left of it: its sides have Dx = -m and Dx = -3m, ErrorUp = 0
Notch(k, m) ==
    << [x |-> NotchLeft(m), y |-> k * c_nShiftSize],
       [x |-> NotchRight(m), y |-> k * c_nShiftSize],
       [x |-> NotchApexX, y |-> k * c_nShiftSize + NotchDepth] >>

Reversed(subpath) ==
    [i \in 1..Len(subpath) |-> subpath[Len(subpath) + 1 - i]]

\* a strip with a notch in either orientation, inside the strip or above it
NotchPaths ==
    UNION { { <<Strip(yTop, NotchDx(s)), Notch(k, NotchDx(s))>>,
              <<Strip(yTop, NotchDx(s)), Reversed(Notch(k, NotchDx(s)))>> } :
            yTop \in {0, 4 * c_nShiftSize}, s \in 0..MaxSteep, k \in 1..MaxNotch }

\* the edge of the segment p -> q, p.y # q.y: it runs from its upper to its
\* lower end, X + (Error+1)/ErrorDown is its x at the sub-scanline reached
InitializeEdge(p, q) ==
    LET top == IF p.y < q.y THEN p ELSE q
        bot == IF p.y < q.y THEN q ELSE p
        dM  == bot.x - top.x
        dN  == bot.y - top.y
    IN  [X |-> top.x, Error |-> -1,
         Dx |-> dM \div dN, ErrorUp |-> dM % dN, ErrorDown |-> dN,
         StartY |-> top.y, EndY |-> bot.y,
         WindingDirection |-> IF p.y < q.y THEN 1 ELSE -1]

\* the edges of a closed subpath: its non-horizontal segments in order
RECURSIVE InitializeEdges(_, _)
InitializeEdges(subpath, i) ==
    IF i > Len(subpath) THEN << >>
    ELSE (IF subpath[i].y = subpath[(i % Len(subpath)) + 1].y THEN << >>
          ELSE << InitializeEdge(subpath[i], subpath[(i % Len(subpath)) + 1]) >>)
         \o InitializeEdges(subpath, i + 1)

\* the edge store of a path: the edges of its subpaths
RECURSIVE FixedPointPathEnumerate(_)
FixedPointPathEnumerate(path) ==
    IF path = << >> THEN << >>
    ELSE InitializeEdges(Head(path), 1) \o FixedPointPathEnumerate(Tail(path))

\* list with e spliced in before the first position of hits, at the end when
\* hits is empty
InsertEdge(list, e, hits) ==
    LET k == IF hits = {} THEN Len(list) + 1
             ELSE CHOOSE i \in hits : \A j \in hits : i <= j
    IN  SubSeq(list, 1, k - 1) \o <<e>> \o SubSeq(list, k, Len(list))

XNotAfter(e, f) == e.X <= f.X

XBefore(e, f) == e.X < f.X

StartBefore(e, f) ==
    e.StartY < f.StartY \/ (e.StartY = f.StartY /\ e.X < f.X)

\* e spliced in before the first edge it is ordered before
InsertByStart(list, e) ==
    InsertEdge(list, e, { i \in 1..Len(list) : StartBefore(e, list[i]) })

InsertByXNotAfter(list, e) ==
    InsertEdge(list, e, { i \in 1..Len(list) : XNotAfter(e, list[i]) })

InsertByXBefore(list, e) ==
    InsertEdge(list, e, { i \in 1..Len(list) : XBefore(e, list[i]) })

\* the inactive array: the edges ascending in (StartY, X)
RECURSIVE InitializeInactiveArray(_)
InitializeInactiveArray(store) ==
    IF store = << >> THEN << >>
    ELSE InsertByStart(InitializeInactiveArray(Tail(store)), Head(store))

\* the StartY of the next inactive edge, INT_MAX (the tail sentinel) at the end
NextInactiveY(inactiveArray) ==
    IF inactiveArray = << >> THEN INT_MAX ELSE Head(inactiveArray).StartY

\* InsertNewEdges: every inactive edge starting at nSubpixelYCurrent is
\* spliced into the active list, which stays sorted in X
RECURSIVE InsertNewEdges(_, _, _)
InsertNewEdges(activeList, nSubpixelYCurrent, inactiveArray) ==
    IF inactiveArray # << >> /\ Head(inactiveArray).StartY = nSubpixelYCurrent
    THEN InsertNewEdges(InsertByXNotAfter(activeList, Head(inactiveArray)),
                        nSubpixelYCurrent, Tail(inactiveArray))
    ELSE [active |-> activeList, inactive |-> inactiveArray,
          nSubpixelYNextInactive |-> NextInactiveY(inactiveArray)]

\* the insertion sort of the active list on X
RECURSIVE SortActiveEdges(_)
SortActiveEdges(list) ==
    IF list = << >> THEN << >>
    ELSE InsertByXBefore(SortActiveEdges(SubSeq(list, 1, Len(list) - 1)),
                         list[Len(list)])

RemoveStaleEdgesAbove(list, nSubpixelYCurrent) ==
    SelectSeq(list, LAMBDA e : ~(e.EndY < nSubpixelYCurrent))

RemoveStaleEdgesDownwardOnly(list, nSubpixelYCurrent) ==
    SelectSeq(list, LAMBDA e : ~(e.EndY <= nSubpixelYCurrent /\ e.WindingDirection > 0))

\* the edges of list that do not end at or above nSubpixelYCurrent
RemoveStaleEdges(list, nSubpixelYCurrent) ==
    SelectSeq(list, LAMBDA e : ~(e.EndY <= nSubpixelYCurrent))

\* AdvanceDDAAndUpdateActiveEdgeList: stale edges are dropped, the others take
\* one DDA step, and the list is sorted again
AdvanceDDAAndUpdateActiveEdgeList(nSubpixelYCurrent, list) ==
    LET live == SelectSeq(list, LAMBDA e : ~(e.EndY <= nSubpixelYCurrent))
    IN  SortActiveEdges([k \in 1..Len(live) |-> AdvanceDDA(live[k])])

----------------------------------------------------------------------------
(* Coverage buffer *)

\* the intervals [left, right) filled on sub-scanline y
RECURSIVE FillEdgesAlternating(_, _, _)
FillEdgesAlternating(list, i, y) ==
    IF i + 1 > Len(list) THEN {}
    ELSE {[y |-> y, left |-> list[i].X, right |-> list[i + 1].X]}
         \cup FillEdgesAlternating(list, i + 2, y)

\* w is the winding sum left of list[i], left the X where it left zero; an
\* interval still open at the end of the list runs to the tail sentinel
RECURSIVE FillEdgesWinding(_, _, _, _, _)
FillEdgesWinding(list, i, y, w, left) ==
    IF i > Len(list)
    THEN (IF w = 0 THEN {} ELSE {[y |-> y, left |-> left, right |-> INT_MAX]})
    ELSE LET w1 == w + list[i].WindingDirection
         IN  IF w = 0
             THEN FillEdgesWinding(list, i + 1, y, w1, list[i].X)
             ELSE IF w1 = 0
             THEN {[y |-> y, left |-> left, right |-> list[i].X]}
                  \cup FillEdgesWinding(list, i + 1, y, w1, left)
             ELSE FillEdgesWinding(list, i + 1, y, w1, left)

----------------------------------------------------------------------------
(* The sweep: RasterizePath and RasterizeEdges *)

VARIABLES
    pc,                      \* "start", "loop" (head of the sweep loop), "done"
    rgpt,                    \* the path handed to RasterizePath, a sequence of subpaths
    m_fillMode,
    active,                  \* the active edge list between the sentinels
    inactive,                \* the inactive array from the cursor on
    nSubpixelYCurrent,
    nSubpixelYBottom,
    nSubpixelYNextInactive,
    m_coverageBuffer,        \* the intervals filled since the last flush
    sink,                    \* the calls made on m_pIGeometrySink, in order
    filled,                  \* the sub-scanlines filled into the coverage buffer so far
    lastStep,                \* the branch the last iteration took, and from where
    fn,                      \* a call of one of the fixed-point helpers on its own
    hr,                      \* the hr of SendGeometry, RasterizePath and RasterizeEdges
    m_pIGeometrySink,        \* "NULL" or "sink"
    pInactiveArrayAllocation, \* "NULL", "allocated" or "freed"
    call                     \* the caller's side: the shape, what the enumeration,
                             \* HrMalloc and the sink return, and the calls so far

vars == << pc, rgpt, m_fillMode, active, inactive, nSubpixelYCurrent,
           nSubpixelYBottom, nSubpixelYNextInactive, m_coverageBuffer, sink,
           filled, lastStep, fn, hr, m_pIGeometrySink,
           pInactiveArrayAllocation, call >>

\* lastStep.before is the active list at the head of the iteration,
\* lastStep.edges the list as OutputTrapezoids left it
NoStep == [kind |-> "none", from |-> 0, before |-> << >>, edges |-> << >>]

NoCall == [op |-> "none"]

S_OK == "S_OK"
WGXHR_EMPTYFILL == "WGXHR_EMPTYFILL"
WGXERR_VALUEOVERFLOW == "WGXERR_VALUEOVERFLOW"
E_OUTOFMEMORY == "E_OUTOFMEMORY"
E_FAIL == "E_FAIL"

\* WGXHR_EMPTYFILL is a success code
FAILED(h) == h \notin {S_OK, WGXHR_EMPTYFILL}

\* hr after IFC!(e): the macro evaluates e and drops its value
IFC(h, e) == h

RECURSIVE IFCAll(_, _)
IFCAll(h, results) ==
    IF results = << >> THEN h ELSE IFCAll(IFC(h, Head(results)), Tail(results))

\* hr after MIL_THR!(e)
MIL_THR(h, e) == e

NoFailure == [SendGeometry |-> S_OK, RasterizePath |-> S_OK, RasterizeEdges |-> S_OK]

\* what SendGeometry returned and what the sink had received
NoReturn == [status |-> "none", sink |-> << >>]

\* what the sink returns from the k-th call made on it
SinkResult(k) ==
    IF call.nSinkError # 0 /\ k >= call.nSinkError THEN E_FAIL ELSE S_OK

\* the results of n calls after the first `made`
SinkResults(made, n) == [k \in 1..n |-> SinkResult(made + k)]

\* the size of inactiveArrayStack
INACTIVE_LIST_NUMBER == 5

GpFree(allocation) == IF allocation = "allocated" THEN "freed" ELSE allocation

\* m_prgPoints->GetCount()
RECURSIVE cPoints(_)
cPoints(path) == IF path = << >> THEN 0 ELSE Len(Head(path)) + cPoints(Tail(path))

\* the entry of RasterizePath, the path already in the scratch arrays, in a
\* call whose enumeration, HrMalloc and sink do not fail
Init ==
    /\ pc = "start"
    /\ rgpt \in Paths
    /\ m_fillMode \in {Alternate, Winding}
    /\ active = << >>
    /\ inactive = << >>
    /\ nSubpixelYCurrent = 0
    /\ nSubpixelYBottom = 0
    /\ nSubpixelYNextInactive = INT_MAX
    /\ m_coverageBuffer = {}
    /\ sink = << >>
    /\ filled = {}
    /\ lastStep = NoStep
    /\ fn = NoCall
    /\ hr = NoFailure
    /\ m_pIGeometrySink = "sink"
    /\ pInactiveArrayAllocation = "NULL"
    /\ call = [pShape |-> << >>, fillMode |-> m_fillMode, hrEnumerate |-> S_OK,
               hrMalloc |-> S_OK, nSinkError |-> 0, n |-> 1, first |-> NoReturn]

max(a, b) == IF a > b THEN a ELSE b

MaxEndYAndBeyond(store) == Head(store).EndY + c_nShiftSize

\* edgeContext.MaxY: the largest EndY of the store
RECURSIVE MaxEndY(_)
MaxEndY(store) ==
    IF store = << >> THEN INT_MIN
    ELSE max(Head(store).EndY, MaxEndY(Tail(store)))

\* an exit of RasterizePath before the sweep
ReturnBeforeSweep(h, coverage, allocation) ==
    /\ pc' = "done"
    /\ hr' = [hr EXCEPT !.RasterizePath = h]
    /\ m_coverageBuffer' = coverage
    /\ pInactiveArrayAllocation' = allocation
    /\ UNCHANGED << active, inactive, nSubpixelYCurrent,
                    nSubpixelYBottom, nSubpixelYNextInactive >>

\* the inactive array is sorted, and RasterizeEdges admits the first edges
StartSweep(store, h, allocation) ==
    \E array \in {InitializeInactiveArray(store)} :
    \E ins \in {InsertNewEdges(<< >>, Head(array).StartY, array)} :
        /\ pc' = "loop"
        /\ hr' = [hr EXCEPT !.RasterizePath = h, !.RasterizeEdges = S_OK]
        /\ pInactiveArrayAllocation' = allocation
        /\ nSubpixelYCurrent' = Head(array).StartY
        /\ nSubpixelYBottom' = MaxEndY(store)
        /\ active' = ins.active
        /\ inactive' = ins.inactive
        /\ nSubpixelYNextInactive' = ins.nSubpixelYNextInactive
        /\ UNCHANGED m_coverageBuffer

\* InitializeInactiveArray writes through a null pInactiveArray: the process
\* stops there, or the writes land and the sweep goes on
NullInactiveArray(store, h) ==
    \/ /\ pc' = "crashed"
       /\ UNCHANGED << hr, pInactiveArrayAllocation, m_coverageBuffer, active,
                       inactive, nSubpixelYCurrent, nSubpixelYBottom,
                       nSubpixelYNextInactive >>
    \/ StartSweep(store, h, "NULL")

EnumerationOverflowKept(h) == h

\* the overflow of the enumeration draws nothing and is no failure
EnumerationOverflow(h) == IF h = WGXERR_VALUEOVERFLOW THEN S_OK ELSE h

\* RasterizePath up to the head of the sweep loop
RasterizePath ==
    /\ pc = "start"
    /\ IF cPoints(rgpt) < 2
       THEN ReturnBeforeSweep(S_OK, m_coverageBuffer, "NULL")
       ELSE \E h \in {MIL_THR(S_OK, call.hrEnumerate)} :
            IF FAILED(h)
            THEN ReturnBeforeSweep(EnumerationOverflow(h), {}, GpFree("NULL"))
            ELSE \E store \in {FixedPointPathEnumerate(rgpt)} :
                 IF store = << >>
                 THEN ReturnBeforeSweep(S_OK, {}, GpFree("NULL"))
                 ELSE IF Len(store) > INACTIVE_LIST_NUMBER - 2
                 THEN IF FAILED(call.hrMalloc)
                      THEN NullInactiveArray(store, IFC(h, call.hrMalloc))
                      ELSE StartSweep(store, IFC(h, call.hrMalloc), "allocated")
                 ELSE StartSweep(store, h, "NULL")
    /\ UNCHANGED << rgpt, m_fillMode, sink, filled, lastStep, fn,
                    m_pIGeometrySink, call >>

TrapezoidsPossibleUnaligned ==
    /\ active # << >>
    /\ nSubpixelYNextInactive >= nSubpixelYCurrent + c_nShiftSize

\* the guard of the trapezoid attempt at the head of an iteration
TrapezoidsPossible ==
    /\ nSubpixelYCurrent % c_nShiftSize = 0
    /\ active # << >>
    /\ nSubpixelYNextInactive >= nSubpixelYCurrent + c_nShiftSize

\* nSubpixelYNext after the trapezoid attempt
TrapezoidsEndScan ==
    IF TrapezoidsPossible
    THEN ComputeTrapezoidsEndScan(active, nSubpixelYCurrent,
                                  nSubpixelYNextInactive, m_fillMode)
    ELSE nSubpixelYCurrent

\* the calls of AdvanceDDAMultipleSteps that the iteration at this loop head
\* makes: those of the recognizer, then those of OutputTrapezoids
RecognizerCalls ==
    IF pc = "loop" /\ nSubpixelYCurrent < nSubpixelYBottom /\ TrapezoidsPossible
    THEN ComputeTrapezoidsEndScanCalls(active, nSubpixelYCurrent,
                                       nSubpixelYNextInactive, m_fillMode)
    ELSE << >>

EmitterCalls ==
    IF /\ pc = "loop" /\ nSubpixelYCurrent < nSubpixelYBottom
       /\ TrapezoidsEndScan >= nSubpixelYCurrent + c_nShiftSize
    THEN OutputTrapezoidsCalls(active, nSubpixelYCurrent, TrapezoidsEndScan)
    ELSE << >>

\* the end of every iteration: edges starting at the new y are admitted
UpdateEdgeList(list, y) ==
    IF y = nSubpixelYNextInactive
    THEN \E ins \in {InsertNewEdges(list, y, inactive)} :
             /\ active' = ins.active
             /\ inactive' = ins.inactive
             /\ nSubpixelYNextInactive' = ins.nSubpixelYNextInactive
    ELSE /\ active' = list
         /\ UNCHANGED << inactive, nSubpixelYNextInactive >>

TrapezoidSink(traps) == [k \in 1..Len(traps) |-> [kind |-> "AddTrapezoid", trap |-> traps[k]]]

\* an iteration that takes the trapezoid branch
TrapezoidStep ==
    /\ pc = "loop"
    /\ nSubpixelYCurrent < nSubpixelYBottom
    /\ \E nSubpixelYNext \in {TrapezoidsEndScan} :
        /\ nSubpixelYNext > nSubpixelYCurrent
        /\ \E out \in {IF nSubpixelYNext >= nSubpixelYCurrent + c_nShiftSize
                        THEN OutputTrapezoids(active, nSubpixelYCurrent, nSubpixelYNext)
                        ELSE [traps |-> << >>, list |-> active]} :
            /\ sink' = sink \o TrapezoidSink(out.traps)
            /\ hr' = [hr EXCEPT !.RasterizeEdges =
                         IFC(@, IFCAll(S_OK, SinkResults(Len(sink), Len(out.traps))))]
            /\ nSubpixelYCurrent' = nSubpixelYNext
            /\ UpdateEdgeList(RemoveStaleEdges(out.list, nSubpixelYNext), nSubpixelYNext)
            /\ lastStep' = [kind |-> "trapezoid", from |-> nSubpixelYCurrent,
                            before |-> active, edges |-> out.list]
    /\ UNCHANGED << pc, rgpt, m_fillMode, nSubpixelYBottom, m_coverageBuffer,
                    filled, fn, m_pIGeometrySink, pInactiveArrayAllocation, call >>

FlushIfRowDoneNoReset(nSubpixelYNext, coverage) ==
    IF nSubpixelYNext > nSubpixelYCurrent - (nSubpixelYCurrent % c_nShiftSize) + c_nShiftMask
    THEN /\ sink' = Append(sink, [kind |-> "AddComplexScan",
                                  nPixelY |-> nSubpixelYCurrent \div c_nShiftSize,
                                  coverage |-> coverage])
         /\ hr' = [hr EXCEPT !.RasterizeEdges =
                      IFC(@, IFC(S_OK, SinkResult(Len(sink) + 1)))]
         /\ m_coverageBuffer' = coverage
    ELSE /\ sink' = sink
         /\ hr' = hr
         /\ m_coverageBuffer' = coverage

\* the row test with nSubpixelYCurrent + c_nShiftMask in place of
\* nSubpixelYCurrent | c_nShiftMask
FlushIfRowDonePlusMask(nSubpixelYNext, coverage) ==
    IF nSubpixelYNext > nSubpixelYCurrent + c_nShiftMask
    THEN /\ sink' = Append(sink, [kind |-> "AddComplexScan",
                                  nPixelY |-> nSubpixelYCurrent \div c_nShiftSize,
                                  coverage |-> coverage])
         /\ hr' = [hr EXCEPT !.RasterizeEdges =
                      IFC(@, IFC(S_OK, SinkResult(Len(sink) + 1)))]
         /\ m_coverageBuffer' = {}
    ELSE /\ sink' = sink
         /\ hr' = hr
         /\ m_coverageBuffer' = coverage

FlushIfRowDoneLate(nSubpixelYNext, coverage) ==
    IF nSubpixelYNext > nSubpixelYCurrent - (nSubpixelYCurrent % c_nShiftSize)
                        + c_nShiftMask + c_nShiftSize
    THEN /\ sink' = Append(sink, [kind |-> "AddComplexScan",
                                  nPixelY |-> nSubpixelYCurrent \div c_nShiftSize,
                                  coverage |-> coverage])
         /\ hr' = [hr EXCEPT !.RasterizeEdges =
                      IFC(@, IFC(S_OK, SinkResult(Len(sink) + 1)))]
         /\ m_coverageBuffer' = {}
    ELSE /\ sink' = sink
         /\ hr' = hr
         /\ m_coverageBuffer' = coverage

\* GenerateOutputAndClearCoverage when nSubpixelYNext leaves the pixel row of
\* nSubpixelYCurrent
FlushIfRowDone(nSubpixelYNext, coverage) ==
    IF nSubpixelYNext > nSubpixelYCurrent - (nSubpixelYCurrent % c_nShiftSize) + c_nShiftMask
    THEN /\ sink' = Append(sink, [kind |-> "AddComplexScan",
                                  nPixelY |-> nSubpixelYCurrent \div c_nShiftSize,
                                  coverage |-> coverage])
         /\ hr' = [hr EXCEPT !.RasterizeEdges =
                      IFC(@, IFC(S_OK, SinkResult(Len(sink) + 1)))]
         /\ m_coverageBuffer' = {}
    ELSE /\ sink' = sink
         /\ hr' = hr
         /\ m_coverageBuffer' = coverage

\* an iteration with no active edge: jump to the next inactive edge
EmptyStep ==
    /\ pc = "loop"
    /\ nSubpixelYCurrent < nSubpixelYBottom
    /\ ~(TrapezoidsEndScan > nSubpixelYCurrent)
    /\ active = << >>
    /\ FlushIfRowDone(nSubpixelYNextInactive, m_coverageBuffer)
    /\ nSubpixelYCurrent' = nSubpixelYNextInactive
    /\ UpdateEdgeList(AdvanceDDAAndUpdateActiveEdgeList(nSubpixelYNextInactive, active),
                      nSubpixelYNextInactive)
    /\ lastStep' = [kind |-> "empty", from |-> nSubpixelYCurrent,
                    before |-> active, edges |-> << >>]
    /\ UNCHANGED << pc, rgpt, m_fillMode, nSubpixelYBottom, filled, fn,
                    m_pIGeometrySink, pInactiveArrayAllocation, call >>

\* an iteration that fills one sub-scanline into the coverage buffer
ComplexStep ==
    /\ pc = "loop"
    /\ nSubpixelYCurrent < nSubpixelYBottom
    /\ ~(TrapezoidsEndScan > nSubpixelYCurrent)
    /\ active # << >>
    /\ FlushIfRowDone(nSubpixelYCurrent + 1,
           m_coverageBuffer \cup
           (IF m_fillMode = Alternate
            THEN FillEdgesAlternating(active, 1, nSubpixelYCurrent)
            ELSE FillEdgesWinding(active, 1, nSubpixelYCurrent, 0, 0)))
    /\ nSubpixelYCurrent' = nSubpixelYCurrent + 1
    /\ UpdateEdgeList(AdvanceDDAAndUpdateActiveEdgeList(nSubpixelYCurrent + 1, active),
                      nSubpixelYCurrent + 1)
    /\ filled' = filled \cup {nSubpixelYCurrent}
    /\ lastStep' = [kind |-> "complex", from |-> nSubpixelYCurrent,
                    before |-> active, edges |-> << >>]
    /\ UNCHANGED << pc, rgpt, m_fillMode, nSubpixelYBottom, fn,
                    m_pIGeometrySink, pInactiveArrayAllocation, call >>

\* Cleanup of RasterizePath: the heap array is freed and the coverage
\* buffer destroyed
Cleanup ==
    /\ pInactiveArrayAllocation' = GpFree(pInactiveArrayAllocation)
    /\ m_coverageBuffer' = {}

\* the sweep is over: the last row with partial coverage is flushed,
\* RasterizeEdges returns and RasterizePath passes Cleanup
Finish ==
    /\ pc = "loop"
    /\ ~(nSubpixelYCurrent < nSubpixelYBottom)
    /\ pc' = "done"
    /\ \E flush \in {nSubpixelYCurrent % c_nShiftSize # 0} :
       \E h \in {IF flush
                 THEN IFC(hr.RasterizeEdges, IFC(S_OK, SinkResult(Len(sink) + 1)))
                 ELSE hr.RasterizeEdges} :
          /\ sink' = IF flush
                     THEN Append(sink, [kind |-> "AddComplexScan",
                                        nPixelY |-> nSubpixelYCurrent \div c_nShiftSize,
                                        coverage |-> m_coverageBuffer])
                     ELSE sink
          /\ hr' = [hr EXCEPT !.RasterizeEdges = h,
                              !.RasterizePath = IFC(@, h)]
    /\ Cleanup
    /\ UNCHANGED << rgpt, m_fillMode, active, inactive, nSubpixelYCurrent,
                    nSubpixelYBottom, nSubpixelYNextInactive, filled, lastStep, fn,
                    m_pIGeometrySink, call >>

ResetKeepsPoints(points) == points

\* DynArray::Reset: the array is emptied
Reset(points) == << >>

\* Setup: the scratch arrays are emptied and receive the shape, the sink
\* reference is cleared and the coverage buffer initialized
Setup ==
    /\ pc = "setup"
    /\ pc' = "send"
    /\ rgpt' = Reset(rgpt) \o call.pShape
    /\ m_pIGeometrySink' = "NULL"
    /\ m_coverageBuffer' = {}
    /\ m_fillMode' = call.fillMode
    /\ UNCHANGED << active, inactive, nSubpixelYCurrent, nSubpixelYBottom,
                    nSubpixelYNextInactive, sink, filled, lastStep, fn, hr,
                    pInactiveArrayAllocation, call >>

\* SendGeometry up to the call of RasterizePath
SendGeometry ==
    /\ pc = "send"
    /\ pc' = "start"
    /\ hr' = [hr EXCEPT !.SendGeometry = S_OK]
    /\ m_pIGeometrySink' = "sink"
    /\ UNCHANGED << rgpt, m_fillMode, active, inactive, nSubpixelYCurrent,
                    nSubpixelYBottom, nSubpixelYNextInactive, m_coverageBuffer,
                    sink, filled, lastStep, fn, pInactiveArrayAllocation, call >>

\* pIGeometrySink.IsEmpty(): nothing with an area was received
IsEmpty(calls) ==
    \A k \in 1..Len(calls) :
        /\ calls[k].kind = "AddComplexScan"
        /\ \A iv \in calls[k].coverage : iv.left >= iv.right

\* SendGeometry after RasterizePath returned
SendGeometryReturn ==
    /\ pc = "done"
    /\ pc' = "returned"
    /\ \E h \in {IFC(hr.SendGeometry, hr.RasterizePath)} :
          hr' = [hr EXCEPT !.SendGeometry =
                     IF IsEmpty(sink) THEN WGXHR_EMPTYFILL ELSE h]
    /\ m_pIGeometrySink' = "NULL"
    /\ UNCHANGED << rgpt, m_fillMode, active, inactive, nSubpixelYCurrent,
                    nSubpixelYBottom, nSubpixelYNextInactive, m_coverageBuffer,
                    sink, filled, lastStep, fn, pInactiveArrayAllocation, call >>

\* the caller sweeps the same shape again with a fresh sink
SweepAgain ==
    /\ pc = "returned"
    /\ call.n = 1
    /\ pc' = "setup"
    /\ call' = [call EXCEPT !.n = 2,
                            !.first = [status |-> hr.SendGeometry, sink |-> sink]]
    /\ sink' = << >>
    /\ filled' = {}
    /\ lastStep' = NoStep
    /\ UNCHANGED << rgpt, m_fillMode, active, inactive, nSubpixelYCurrent,
                    nSubpixelYBottom, nSubpixelYNextInactive, m_coverageBuffer,
                    fn, hr, m_pIGeometrySink, pInactiveArrayAllocation >>

Next ==
    \/ RasterizePath
    \/ TrapezoidStep
    \/ EmptyStep
    \/ ComplexStep
    \/ Finish

Spec == Init /\ [][Next]_vars

----------------------------------------------------------------------------
(* The sweep over the notched strips *)

InitNotch ==
    /\ pc = "start"
    /\ rgpt \in NotchPaths
    /\ m_fillMode \in {Alternate, Winding}
    /\ active = << >>
    /\ inactive = << >>
    /\ nSubpixelYCurrent = 0
    /\ nSubpixelYBottom = 0
    /\ nSubpixelYNextInactive = INT_MAX
    /\ m_coverageBuffer = {}
    /\ sink = << >>
    /\ filled = {}
    /\ lastStep = NoStep
    /\ fn = NoCall
    /\ hr = NoFailure
    /\ m_pIGeometrySink = "sink"
    /\ pInactiveArrayAllocation = "NULL"
    /\ call = [pShape |-> << >>, fillMode |-> m_fillMode, hrEnumerate |-> S_OK,
               hrMalloc |-> S_OK, nSinkError |-> 0, n |-> 1, first |-> NoReturn]

SpecNotch == InitNotch /\ [][Next]_vars

----------------------------------------------------------------------------
(* The rasterizer as its caller drives it: Setup, SendGeometry, and the same
   again *)

\* the sink fails from its k-th call on, k up to MaxSinkError
MaxSinkError == 2

CallShapes ==
    { << >> }
    \cup { << <<p>> >> : p \in Corners }
    \cup { <<s>> : s \in PixelRects \cup Quadrilaterals }
    \cup { <<s, Moved(s, ShiftX, ShiftY)>> : s \in Quadrilaterals }
    \cup { <<s, Moved(s, 0, MaxPixel * c_nShiftSize + GapY)>> : s \in PixelRects }

\* what the enumeration, HrMalloc and the sink return during a call
Environments ==
    { [hrEnumerate |-> S_OK, hrMalloc |-> S_OK, nSinkError |-> k] :
      k \in 0..MaxSinkError }
    \cup { [hrEnumerate |-> h, hrMalloc |-> S_OK, nSinkError |-> 0] :
           h \in {WGXERR_VALUEOVERFLOW, E_OUTOFMEMORY} }
    \cup { [hrEnumerate |-> S_OK, hrMalloc |-> E_OUTOFMEMORY, nSinkError |-> 0] }

InitCall ==
    /\ pc = "setup"
    /\ rgpt = << >>
    /\ m_fillMode = Alternate
    /\ active = << >>
    /\ inactive = << >>
    /\ nSubpixelYCurrent = 0
    /\ nSubpixelYBottom = 0
    /\ nSubpixelYNextInactive = INT_MAX
    /\ m_coverageBuffer = {}
    /\ sink = << >>
    /\ filled = {}
    /\ lastStep = NoStep
    /\ fn = NoCall
    /\ hr = NoFailure
    /\ m_pIGeometrySink = "NULL"
    /\ pInactiveArrayAllocation = "NULL"
    /\ \E shape \in CallShapes, mode \in {Alternate, Winding}, env \in Environments :
          call = [pShape |-> shape, fillMode |-> mode,
                  hrEnumerate |-> env.hrEnumerate, hrMalloc |-> env.hrMalloc,
                  nSinkError |-> env.nSinkError, n |-> 1, first |-> NoReturn]

NextCall ==
    \/ Setup
    \/ SendGeometry
    \/ RasterizePath
    \/ TrapezoidStep
    \/ EmptyStep
    \/ ComplexStep
    \/ Finish
    \/ SendGeometryReturn
    \/ SweepAgain

SpecCall == InitCall /\ [][NextCall]_vars

----------------------------------------------------------------------------
(* The fixed-point helpers on their own *)

\* bounds of the edges the helpers are called on
MaxErrorDown == 3
MaxDx == 2
MaxAdvance == 3

\* the data-model invariant of an edge
EdgeInvariant(e) ==
    /\ e.ErrorDown > 0
    /\ 0 <= e.ErrorUp /\ e.ErrorUp < e.ErrorDown
    /\ -e.ErrorDown <= e.Error /\ e.Error < 0

SmallEdges ==
    { [X |-> 0, Error |-> err, Dx |-> dx, ErrorUp |-> up, ErrorDown |-> down,
       StartY |-> 0, EndY |-> c_nShiftSize, WindingDirection |-> 1] :
      err \in (-MaxErrorDown)..(-1), dx \in (-MaxDx)..MaxDx,
      up \in 0..(MaxErrorDown - 1), down \in 1..MaxErrorDown }

\* edges whose ErrorDown is near the top of its range (0, 2^30)
LargeEdges ==
    { [X |-> 0, Error |-> -1, Dx |-> dx, ErrorUp |-> up, ErrorDown |-> TwoTo30 - 1,
       StartY |-> 0, EndY |-> c_nShiftSize, WindingDirection |-> 1] :
      dx \in {-1, 0}, up \in {0, 1, (TwoTo30 \div 2) - 1, TwoTo30 \div 2} }

LeftEdges == { e \in SmallEdges \cup LargeEdges : EdgeInvariant(e) }

\* right edges: at or right of the left edge
RightEdges ==
    { [e EXCEPT !.X = x] : e \in { f \in SmallEdges : EdgeInvariant(f) /\ f.Dx = 0 },
                           x \in 0..1 }

InitFn ==
    /\ pc = "fn"
    /\ rgpt = << >>
    /\ m_fillMode = Alternate
    /\ active = << >>
    /\ inactive = << >>
    /\ nSubpixelYCurrent = 0
    /\ nSubpixelYBottom = 0
    /\ nSubpixelYNextInactive = INT_MAX
    /\ m_coverageBuffer = {}
    /\ sink = << >>
    /\ filled = {}
    /\ lastStep = NoStep
    /\ hr = NoFailure
    /\ m_pIGeometrySink = "NULL"
    /\ pInactiveArrayAllocation = "NULL"
    /\ call = [pShape |-> << >>, fillMode |-> Alternate, hrEnumerate |-> S_OK,
               hrMalloc |-> S_OK, nSinkError |-> 0, n |-> 1, first |-> NoReturn]
    /\ \E l \in LeftEdges, r \in RightEdges, d \in 0..MaxAdvance :
          fn = [op |-> "none", pEdgeLeft |-> l, pEdgeRight |-> r,
                nSubpixelYAdvance |-> d]

Returns(op, value) ==
    /\ pc = "fn"
    /\ pc' = "returned"
    /\ fn' = [op |-> op, pEdgeLeft |-> fn.pEdgeLeft, pEdgeRight |-> fn.pEdgeRight,
              nSubpixelYAdvance |-> fn.nSubpixelYAdvance, result |-> value]
    /\ UNCHANGED << rgpt, m_fillMode, active, inactive, nSubpixelYCurrent,
                    nSubpixelYBottom, nSubpixelYNextInactive, m_coverageBuffer,
                    sink, filled, lastStep, hr, m_pIGeometrySink,
                    pInactiveArrayAllocation, call >>

\* the advance is explored where the 64-bit error before the carry stays
\* below 2^31
CallAdvanceDDAMultipleSteps ==
    /\ fn.pEdgeLeft.ErrorUp <= INT_MAX \div (IF fn.nSubpixelYAdvance = 0 THEN 1
                                             ELSE fn.nSubpixelYAdvance)
    /\ Returns("AdvanceDDAMultipleSteps",
               AdvanceDDAMultipleSteps(fn.pEdgeLeft, fn.pEdgeRight,
                                       fn.nSubpixelYAdvance))

\* the recognizer's call: the advance is c_nHalfShiftSize
CallComputeDeltaUpperBound ==
    /\ fn.op = "none"
    /\ Returns("ComputeDeltaUpperBound",
               ComputeDeltaUpperBound(fn.pEdgeLeft, c_nHalfShiftSize))

\* the distance bound is explored on the small edges
CallComputeDistanceLowerBound ==
    /\ fn.pEdgeLeft.ErrorDown <= MaxErrorDown
    /\ Returns("ComputeDistanceLowerBound",
               ComputeDistanceLowerBound(fn.pEdgeLeft, fn.pEdgeRight))

NextFn ==
    \/ CallAdvanceDDAMultipleSteps
    \/ CallComputeDeltaUpperBound
    \/ CallComputeDistanceLowerBound

SpecFn == InitFn /\ [][NextFn]_vars

----------------------------------------------------------------------------
(* Properties of the sweep, under Spec *)

AtLoopHead == pc = "loop"

ErrorInRange(e) == (-e.ErrorDown) <= e.Error /\ e.Error < 0

\* C1: at the head of every iteration of the sweep, and right after every DDA
\* advance (single step, or the multi-step advance of a trapezoid run, before
\* stale edges are removed), every active edge has -ErrorDown <= Error < 0
C1_ActiveErrorInRange ==
    /\ \A i \in 1..Len(active) : ErrorInRange(active[i])
    /\ \A i \in 1..Len(lastStep.edges) : ErrorInRange(lastStep.edges[i])

\* a trapezoid run has advanced an edge whose error accumulates
C1_Witness ==
    /\ lastStep.kind = "trapezoid"
    /\ \E i \in 1..Len(lastStep.edges) :
          /\ lastStep.edges[i].ErrorUp > 0
          /\ lastStep.edges[i].Error # lastStep.before[i].Error

\* C2: at the head of every iteration of the sweep the number of active edges
\* is even
C2_ActiveCountEven == AtLoopHead => Len(active) % 2 = 0

\* a trapezoid run retired edges while other edges stay active
C2_Witness ==
    /\ AtLoopHead
    /\ lastStep.kind = "trapezoid"
    /\ Len(active) >= 2
    /\ \E i \in 1..Len(lastStep.edges) : lastStep.edges[i].EndY <= nSubpixelYCurrent

AddedTrapezoids == {sink[k].trap : k \in {j \in 1..Len(sink) : sink[j].kind = "AddTrapezoid"}}

\* x.X + x.Error/x.ErrorDown <= y.X + y.Error/y.ErrorDown, exactly
PositionLeq(x, y) ==
    (x.X * x.ErrorDown + x.Error) * y.ErrorDown
      <= (y.X * y.ErrorDown + y.Error) * x.ErrorDown

EndScanPrecondition ==
    /\ AtLoopHead
    /\ nSubpixelYCurrent < nSubpixelYBottom
    /\ TrapezoidsPossible
    /\ \A i \in 1..Len(active) : active[i].EndY > nSubpixelYCurrent

EndScanResultOk(r) ==
    \/ r = nSubpixelYCurrent
    \/ /\ r % c_nShiftSize = 0
       /\ nSubpixelYCurrent + c_nShiftSize <= r
       /\ r <= nSubpixelYNextInactive
       /\ \A i \in 1..Len(active) : r <= active[i].EndY

\* C9: on a pixel-aligned yCurrent with every active EndY > yCurrent and
\* yNextInactive >= yCurrent + 8, the result r of ComputeTrapezoidsEndScan is
\* yCurrent, or is pixel-aligned with yCurrent + 8 <= r <= yNextInactive and
\* r <= EndY of every active edge
C9_EndScanResult ==
    EndScanPrecondition
    => EndScanResultOk(ComputeTrapezoidsEndScan(active, nSubpixelYCurrent,
                                                nSubpixelYNextInactive, m_fillMode))

\* the recognizer returns a run that stops before the first edge ends
C9_Witness ==
    /\ EndScanPrecondition
    /\ \E r \in {ComputeTrapezoidsEndScan(active, nSubpixelYCurrent,
                                          nSubpixelYNextInactive, m_fillMode)} :
          /\ r >= nSubpixelYCurrent + c_nShiftSize
          /\ \A i \in 1..Len(active) : r < active[i].EndY

\* the pixel rows a trapezoid touches
TrapezoidRows(t) == (t.yTop \div c_nShiftSize)..((t.yBottom - 1) \div c_nShiftSize)

\* C10: an iteration on the trapezoid path starts pixel-aligned and advances
\* yCurrent by a positive multiple of 8; an iteration on the complex path
\* advances it by exactly 1; no sub-scanline is both inside an emitted
\* trapezoid and filled into the coverage buffer, and no pixel row receives
\* both a trapezoid and a complex span
C10_StepSizesAndDisjoint ==
    /\ lastStep.kind = "trapezoid"
       => /\ lastStep.from % c_nShiftSize = 0
          /\ nSubpixelYCurrent > lastStep.from
          /\ (nSubpixelYCurrent - lastStep.from) % c_nShiftSize = 0
    /\ lastStep.kind = "complex" => nSubpixelYCurrent = lastStep.from + 1
    /\ \A t \in AddedTrapezoids : \A y \in filled :
          /\ ~(t.yTop <= y /\ y < t.yBottom)
          /\ (y \div c_nShiftSize) \notin TrapezoidRows(t)

\* sub-scanlines were filled both above and below an emitted trapezoid
C10_Witness ==
    \E t \in AddedTrapezoids :
        /\ \E y \in filled : y < t.yTop
        /\ \E y \in filled : y >= t.yBottom

\* the AddComplexScan calls made so far, in order
ComplexScans == SelectSeq(sink, LAMBDA c : c.kind = "AddComplexScan")

PixelRow(y) == y \div c_nShiftSize

\* the pixel rows flushed through AddComplexScan so far
FlushedRows ==
    { sink[k].nPixelY : k \in { i \in 1..Len(sink) : sink[i].kind = "AddComplexScan" } }

\* the AddComplexScan call of the step just taken, if it made one: a complex
\* step that completed a row, a jump over a gap, or the end of the sweep
LastComplexScan ==
    IF /\ sink # << >>
       /\ sink[Len(sink)].kind = "AddComplexScan"
       /\ \/ lastStep.kind = "complex" /\ nSubpixelYCurrent % c_nShiftSize = 0
          \/ lastStep.kind = "empty"
          \/ pc = "done"
    THEN {sink[Len(sink)]} ELSE {}

\* the sub-scanlines whose pixel row has to be looked at after the step just
\* taken: the one a complex step filled, all of them after any other step
NewlyFilled ==
    IF pc = "loop" /\ lastStep.kind = "complex" THEN {lastStep.from} ELSE filled

\* C11: every AddComplexScan call has a larger pixelY than all the calls
\* before it (so at most one per pixel row) and passes the coverage of its
\* own row only; a pixel row with a filled sub-scanline is the current row of
\* the sweep or has been flushed, and has been flushed when the sweep is
\* over; the buffer holds no coverage of a flushed row. A call is looked at
\* in the state after the step that made it, a filled sub-scanline from the
\* step that filled it on until the sweep leaves its row
C11_OneComplexScanPerRow ==
    \E rows \in {FlushedRows} :
        /\ \A scan \in LastComplexScan :
              /\ \A i \in 1..(Len(sink) - 1) :
                    sink[i].kind = "AddComplexScan" => sink[i].nPixelY < scan.nPixelY
              /\ \A iv \in scan.coverage : PixelRow(iv.y) = scan.nPixelY
        /\ \A y \in NewlyFilled :
              \/ pc = "loop" /\ PixelRow(y) = PixelRow(nSubpixelYCurrent)
              \/ PixelRow(y) \in rows
        /\ \A iv \in m_coverageBuffer : PixelRow(iv.y) \notin rows

\* a finished sweep with three complex scans, the last one the flush of a
\* partial row at the bottom
C11_Witness ==
    /\ pc = "done"
    /\ Len(ComplexScans) >= 3
    /\ nSubpixelYCurrent % c_nShiftSize # 0
    /\ ComplexScans[Len(ComplexScans)].nPixelY = PixelRow(nSubpixelYCurrent)
    /\ ComplexScans[Len(ComplexScans)].coverage # {}

\* x brought into the sub-pixel columns of pixel px
ClampToPixel(x, px) ==
    max(px * c_nShiftSize, min(x, px * c_nShiftSize + c_nShiftSize))

\* what the interval iv adds to pixel px: +1 from its left end on, -1 from
\* its right end on, over the sub-pixel columns of px
IntervalCoverage(iv, px) == ClampToPixel(iv.right, px) - ClampToPixel(iv.left, px)

\* the intervals of a row in some order
RECURSIVE Intervals(_)
Intervals(coverage) ==
    IF coverage = {} THEN << >>
    ELSE LET iv == CHOOSE v \in coverage : TRUE
         IN  <<iv>> \o Intervals(coverage \ {iv})

\* the coverage of pixel px: the sum over the intervals from the i-th on
RECURSIVE PixelCoverageFrom(_, _, _)
PixelCoverageFrom(intervals, i, px) ==
    IF i > Len(intervals) THEN 0
    ELSE IntervalCoverage(intervals[i], px) + PixelCoverageFrom(intervals, i + 1, px)

\* the coverage of pixel px: the sum over the intervals of a row
PixelCoverage(coverage, px) == PixelCoverageFrom(Intervals(coverage), 1, px)

\* the pixels that the intervals of a row reach
TouchedPixels(coverage) ==
    UNION { PixelRow(iv.left)..PixelRow(iv.right) : iv \in coverage }

\* the pixel columns the explored paths reach, and one column beyond
LastPixel == ((MaxXIdx * XStep + ShiftX) \div c_nShiftSize) + 1

CoverageInRange(c) == 0 <= c /\ c <= c_nShiftSize * c_nShiftSize

\* C12: for every row flushed through AddComplexScan the coverage of every
\* pixel an interval reaches is within [0, 64]; no interval reaches a pixel
\* left or right of the path, so that the coverage is 0 there, under either
\* fill mode
C12_CoverageInRange ==
    \A scan \in LastComplexScan :
        /\ \A iv \in scan.coverage :
              /\ iv.left <= iv.right
              /\ iv.right < INT_MAX
              /\ IntervalCoverage(iv, -1) = 0
              /\ IntervalCoverage(iv, LastPixel) = 0
        /\ \E intervals \in {Intervals(scan.coverage)} :
           \A px \in TouchedPixels(scan.coverage) :
              CoverageInRange(PixelCoverageFrom(intervals, 1, px))

\* a row flushed with a fully covered pixel, filled in Winding mode from four
\* active edges
C12_Witness ==
    /\ m_fillMode = Winding
    /\ \E scan \in LastComplexScan :
          /\ \E px \in 0..LastPixel :
                PixelCoverage(scan.coverage, px) = c_nShiftSize * c_nShiftSize
          /\ \E iv \in scan.coverage : \E jv \in scan.coverage :
                iv.y = jv.y /\ iv.left < jv.left

----------------------------------------------------------------------------
(* Properties of the helpers, under SpecFn *)

Returned(op) == pc = "returned" /\ fn.op = op

\* C5 as stated: ComputeDistanceLowerBound(L, R) is at most
\* (R.X + R.Error/R.ErrorDown) - (L.X + L.Error/L.ErrorDown) with the stored
\* Error members, for negative errors, ErrorDown >= 1 and L.X <= R.X
C5_BoundOnStoredError ==
    (Returned("ComputeDistanceLowerBound") /\ fn.pEdgeLeft.X <= fn.pEdgeRight.X)
    => (fn.result - (fn.pEdgeRight.X - fn.pEdgeLeft.X))
         * fn.pEdgeLeft.ErrorDown * fn.pEdgeRight.ErrorDown
       <= fn.pEdgeRight.Error * fn.pEdgeLeft.ErrorDown
          - fn.pEdgeLeft.Error * fn.pEdgeRight.ErrorDown

\* C5 amended: ComputeDistanceLowerBound(L, R) is at most the distance of the
\* unbiased positions, (R.X + (R.Error+1)/R.ErrorDown)
\* - (L.X + (L.Error+1)/L.ErrorDown)
C5_BoundOnUnbiasedError ==
    (Returned("ComputeDistanceLowerBound") /\ fn.pEdgeLeft.X <= fn.pEdgeRight.X)
    => (fn.result - (fn.pEdgeRight.X - fn.pEdgeLeft.X))
         * fn.pEdgeLeft.ErrorDown * fn.pEdgeRight.ErrorDown
       <= (fn.pEdgeRight.Error + 1) * fn.pEdgeLeft.ErrorDown
          - (fn.pEdgeLeft.Error + 1) * fn.pEdgeRight.ErrorDown

\* the bound is computed with the right fraction strictly below the left one,
\* on edges one sub-pixel apart
C5_Witness ==
    /\ Returned("ComputeDistanceLowerBound")
    /\ fn.pEdgeLeft.X < fn.pEdgeRight.X
    /\ fn.result = fn.pEdgeRight.X - fn.pEdgeLeft.X - 1

\* n*u/d for 0 <= u < d as quotient and remainder, by n additions
ScaledStep(p, u, d) ==
    IF p.r + u - d >= 0 THEN [q |-> p.q + 1, r |-> p.r + u - d]
    ELSE [q |-> p.q, r |-> p.r + u]

RECURSIVE Scaled(_, _, _)
Scaled(n, u, d) ==
    IF n = 0 THEN [q |-> 0, r |-> 0] ELSE ScaledStep(Scaled(n - 1, u, d), u, d)

\* the least integer >= n*u/d
ScaledCeiling(p) == IF p.r > 0 THEN p.q + 1 ELSE p.q

\* |Dx + ErrorUp/ErrorDown| as whole part and numerator over ErrorDown
AbsInvSlope(e) ==
    IF e.Dx >= 0 THEN [whole |-> e.Dx, up |-> e.ErrorUp]
    ELSE IF e.ErrorUp = 0 THEN [whole |-> -e.Dx, up |-> 0]
    ELSE [whole |-> (-e.Dx) - 1, up |-> e.ErrorDown - e.ErrorUp]

\* C6: for 0 < ErrorDown < 2^30, 0 <= ErrorUp < ErrorDown and the advance the
\* recognizer passes, ComputeDeltaUpperBound is at least
\* advance * |Dx + ErrorUp/ErrorDown|, and is advance * |Dx| when ErrorUp = 0
C6_DeltaIsUpperBound ==
    Returned("ComputeDeltaUpperBound")
    => /\ fn.result - c_nHalfShiftSize * AbsInvSlope(fn.pEdgeLeft).whole
          >= ScaledCeiling(Scaled(c_nHalfShiftSize, AbsInvSlope(fn.pEdgeLeft).up,
                                  fn.pEdgeLeft.ErrorDown))
       /\ fn.pEdgeLeft.ErrorUp = 0
          => fn.result = c_nHalfShiftSize * abs(fn.pEdgeLeft.Dx)

\* C7: for an edge with ErrorDown > 0, 0 <= ErrorUp < ErrorDown,
\* -ErrorDown <= Error < 0 and an advance >= 0, the error
\* AdvanceDDAMultipleSteps returns is strictly inside (-ErrorDown, 0): its
\* assertion holds, and the error fits 32 bits
C7_ErrorStrictlyInside ==
    (Returned("AdvanceDDAMultipleSteps")
     /\ EdgeInvariant(fn.pEdgeLeft) /\ EdgeInvariant(fn.pEdgeRight)
     /\ fn.nSubpixelYAdvance >= 0)
    => /\ AdvanceErrorAssertion(fn.pEdgeLeft, fn.result.nSubpixelErrorLeftBottom)
       /\ AdvanceErrorAssertion(fn.pEdgeRight, fn.result.nSubpixelErrorRightBottom)
       /\ fn.result.nSubpixelErrorLeftBottom >= INT_MIN
       /\ fn.result.nSubpixelErrorRightBottom >= INT_MIN

OppositePairs(list) ==
    \A i \in 1..(Len(list) - 1) :
        i % 2 = 1 => list[i].WindingDirection # list[i + 1].WindingDirection

\* C19: in Winding mode an iteration emits trapezoids only from an active
\* list whose pairs all have opposite WindingDirection, and there the
\* winding fill of the list is its alternating fill; when a pair has equal
\* WindingDirection the recognizer returns nSubpixelYCurrent, and the
\* iteration fills the sub-scanline
C19_WindingTrapezoids ==
    m_fillMode = Winding =>
        /\ lastStep.kind = "trapezoid" =>
              /\ OppositePairs(lastStep.before)
              /\ FillEdgesWinding(lastStep.before, 1, lastStep.from, 0, 0)
                 = FillEdgesAlternating(lastStep.before, 1, lastStep.from)
        /\ pc = "loop" /\ ~OppositePairs(active) =>
              /\ ComputeTrapezoidsEndScan(active, nSubpixelYCurrent,
                                          nSubpixelYNextInactive, Winding)
                 = nSubpixelYCurrent
              /\ TrapezoidsEndScan = nSubpixelYCurrent
        /\ lastStep.kind = "complex" /\ sink # << >>
           /\ sink[Len(sink)].kind = "AddComplexScan"
           /\ nSubpixelYCurrent % c_nShiftSize = 0
           => \A iv \in FillEdgesWinding(lastStep.before, 1, lastStep.from, 0, 0) :
                  iv \in sink[Len(sink)].coverage

\* in Winding mode, after a filled sub-scanline, a pair of equal
\* WindingDirection stops a run that the edges' positions would allow
C19_Witness ==
    /\ m_fillMode = Winding
    /\ pc = "loop"
    /\ lastStep.kind = "complex"
    /\ ~OppositePairs(active)
    /\ TrapezoidsPossible
    /\ EndScanLoop(active, 1, nSubpixelYCurrent, nSubpixelYNextInactive)
       > nSubpixelYCurrent

\* C20: OutputTrapezoids leaves the active list with the same edges in the
\* same order, each with its X and Error at nSubpixelYNext and with Dx,
\* ErrorUp, ErrorDown, StartY, EndY and WindingDirection as before; the
\* recognizer before it changes no edge
C20_OnlyXAndErrorChange ==
    lastStep.kind = "trapezoid" =>
        /\ Len(lastStep.edges) = Len(lastStep.before)
        /\ \A i \in 1..Len(lastStep.before) :
              /\ lastStep.edges[i]
                 = [lastStep.before[i] EXCEPT !.X = lastStep.edges[i].X,
                                              !.Error = lastStep.edges[i].Error]
              /\ lastStep.edges[i]
                 = AdvanceDDASteps(lastStep.before[i],
                                   nSubpixelYCurrent - lastStep.from)

\* trapezoids were emitted from a list with a slanted edge whose X and Error
\* both moved
C20_Witness ==
    /\ lastStep.kind = "trapezoid"
    /\ \E i \in 1..Len(lastStep.before) :
          /\ lastStep.before[i].Dx # 0
          /\ lastStep.before[i].ErrorUp # 0
          /\ lastStep.edges[i].X # lastStep.before[i].X
          /\ lastStep.edges[i].Error # lastStep.before[i].Error

----------------------------------------------------------------------------
(* Properties of the rasterizer as its caller drives it *)

\* RasterizePath has returned to SendGeometry
RasterizePathReturned == pc \in {"done", "returned"}

\* the path has fewer than two points, its enumeration overflowed, or it
\* has no edge
NothingToDraw ==
    \/ cPoints(rgpt) < 2
    \/ call.hrEnumerate = WGXERR_VALUEOVERFLOW
    \/ call.hrEnumerate = S_OK /\ FixedPointPathEnumerate(rgpt) = << >>

\* C13: when the path has fewer than two points, or its enumeration reports
\* a value overflow, or it has no edge, RasterizePath returns S_OK and has
\* made no call on the sink
C13_NothingToDrawIsSuccess ==
    RasterizePathReturned /\ NothingToDraw
        => hr.RasterizePath = S_OK /\ sink = << >>

\* the enumeration of a path with edges overflowed, and RasterizePath has
\* returned
C13_Witness ==
    /\ pc = "done"
    /\ call.hrEnumerate = WGXERR_VALUEOVERFLOW
    /\ cPoints(rgpt) >= 2
    /\ FixedPointPathEnumerate(rgpt) # << >>

\* a call on the sink has returned an error
SinkFailed == call.nSinkError # 0 /\ Len(sink) >= call.nSinkError

\* C14: once AddTrapezoid or AddComplexScan returns an error no further call
\* is made on the sink, RasterizeEdges and RasterizePath return that error,
\* and RasterizePath has by then freed the heap array and emptied the
\* coverage buffer
C14_SinkErrorUnwinds ==
    SinkFailed =>
        /\ Len(sink) = call.nSinkError
        /\ pc \in {"done", "returned"} =>
              /\ hr.RasterizeEdges = E_FAIL
              /\ hr.RasterizePath = E_FAIL
              /\ pInactiveArrayAllocation # "allocated"
              /\ m_coverageBuffer = {}

\* C15: SendGeometry returns WGXHR_EMPTYFILL exactly when RasterizePath
\* succeeded and the sink is empty, S_OK when RasterizePath succeeded and the
\* sink is not empty, and the failure of RasterizePath unchanged; the sink
\* reference is cleared when it returns
C15_SendGeometryStatus ==
    pc = "returned" =>
        /\ hr.SendGeometry = WGXHR_EMPTYFILL
              <=> ~FAILED(hr.RasterizePath) /\ IsEmpty(sink)
        /\ ~FAILED(hr.RasterizePath) /\ ~IsEmpty(sink) => hr.SendGeometry = S_OK
        /\ FAILED(hr.RasterizePath) => hr.SendGeometry = hr.RasterizePath
        /\ m_pIGeometrySink = "NULL"

\* the inactive array of the path does not fit inactiveArrayStack
NeedsHeapArray ==
    Len(FixedPointPathEnumerate(rgpt)) > INACTIVE_LIST_NUMBER - 2

\* RasterizePath reached HrMalloc and HrMalloc failed
AllocationFailed ==
    /\ pc \notin {"setup", "send", "start"}
    /\ cPoints(rgpt) >= 2
    /\ call.hrEnumerate = S_OK
    /\ NeedsHeapArray
    /\ FAILED(call.hrMalloc)

\* C16: however RasterizePath ends (fewer than two points, failed
\* enumeration, no edge, failed allocation, sink error, end of the sweep) it
\* returns with the coverage buffer empty and the heap array released; the
\* heap array is allocated only for more than INACTIVE_LIST_NUMBER - 2 edges
C16_ExitsCleanUp ==
    /\ pc = "done" => m_coverageBuffer = {} /\ pInactiveArrayAllocation # "allocated"
    /\ pInactiveArrayAllocation = "allocated" => NeedsHeapArray
    /\ AllocationFailed => pc \in {"done", "returned"} /\ sink = << >>

\* C17: a second Setup and SendGeometry of the same shape make the same
\* calls on the sink and return the same status as the first, whatever state
\* the first left behind
C17_SecondSweepIdentical ==
    pc = "returned" /\ call.n = 2
        => call.first = [status |-> hr.SendGeometry, sink |-> sink]

\* the second sweep has returned after several calls on a sink that failed
\* in the first already
C17_Witness ==
    /\ pc = "returned"
    /\ call.n = 2
    /\ Len(sink) >= 2
    /\ call.nSinkError = 1
    /\ \E k \in 1..Len(sink) : sink[k].kind = "AddTrapezoid"
    /\ \E k \in 1..Len(sink) : sink[k].kind = "AddComplexScan"

\* the shape is one rectangle on whole pixels with a width and a height,
\* filled in Alternate mode, and its enumeration succeeded
PixelRectSwept ==
    /\ pc \in {"done", "returned"}
    /\ m_fillMode = Alternate
    /\ call.hrEnumerate = S_OK
    /\ Len(rgpt) = 1
    /\ rgpt[1] \in PixelRects
    /\ rgpt[1][1].x # rgpt[1][3].x
    /\ rgpt[1][1].y # rgpt[1][3].y

\* C18: a rectangle on whole pixels filled in Alternate mode is delivered as
\* exactly one AddTrapezoid from the rectangle's top to its bottom, between
\* its left and right sides, with both expand distances 0.5, and no
\* AddComplexScan
C18_PixelRectIsOneTrapezoid ==
    PixelRectSwept =>
        /\ Len(sink) = 1
        /\ sink[1].kind = "AddTrapezoid"
        /\ sink[1].trap.yTop = min(rgpt[1][1].y, rgpt[1][3].y)
        /\ sink[1].trap.yBottom = max(rgpt[1][1].y, rgpt[1][3].y)
        /\ sink[1].trap.xTopLeft.X = min(rgpt[1][1].x, rgpt[1][3].x)
        /\ sink[1].trap.xBottomLeft.X = min(rgpt[1][1].x, rgpt[1][3].x)
        /\ sink[1].trap.xTopRight.X = max(rgpt[1][1].x, rgpt[1][3].x)
        /\ sink[1].trap.xBottomRight.X = max(rgpt[1][1].x, rgpt[1][3].x)
        /\ sink[1].trap.leftAbsInvSlope.Num = 0
        /\ sink[1].trap.rightAbsInvSlope.Num = 0

\* a rectangle one pixel wide and two pixels high has been swept
C18_Witness ==
    /\ PixelRectSwept
    /\ abs(rgpt[1][1].x - rgpt[1][3].x) = c_nShiftSize
    /\ abs(rgpt[1][1].y - rgpt[1][3].y) = 2 * c_nShiftSize
    /\ sink # << >>

----------------------------------------------------------------------------
(* Properties of the sweep loop *)

\* what identifies an edge while the DDA moves its X and Error
EdgeKey(e) == [e EXCEPT !.X = 0, !.Error = -1]

\* how often the edge of key k stands in list
Occurrences(list, k) ==
    Cardinality({ i \in 1..Len(list) : EdgeKey(list[i]) = k })

IsLive(e, y) == e.StartY <= y /\ y < e.EndY

\* the edges of the store in list are those of the positions in wanted, each
\* as often as the store has it there
HoldsExactly(list, store, wanted) ==
    /\ Len(list) = Cardinality(wanted)
    /\ \A i \in wanted :
          Occurrences(list, EdgeKey(store[i]))
          = Cardinality({ j \in wanted : EdgeKey(store[j]) = EdgeKey(store[i]) })

\* C21: at the head of every iteration the active list holds exactly the
\* edges with StartY <= yCurrent < EndY and the inactive array exactly the
\* edges with StartY > yCurrent, so that an edge is active from its StartY
\* on, never goes back, and is unlinked once EndY <= yCurrent, after a
\* trapezoid run as well as after a complex step; yCurrent has not passed
\* nSubpixelYNextInactive, which is the StartY of the next inactive edge
C21_ActiveAreTheLiveEdges ==
    pc = "loop" =>
        \E store \in {FixedPointPathEnumerate(rgpt)} :
            /\ HoldsExactly(active, store,
                   { i \in 1..Len(store) : IsLive(store[i], nSubpixelYCurrent) })
            /\ HoldsExactly(inactive, store,
                   { i \in 1..Len(store) : store[i].StartY > nSubpixelYCurrent })
            /\ nSubpixelYNextInactive = NextInactiveY(inactive)
            /\ nSubpixelYCurrent < nSubpixelYNextInactive

\* a trapezoid run has ended where edges end, and the edges that stay active
\* were admitted while those were active
C21_Witness ==
    /\ pc = "loop"
    /\ lastStep.kind = "trapezoid"
    /\ \E i \in 1..Len(lastStep.edges) :
          /\ lastStep.edges[i].EndY = nSubpixelYCurrent
          /\ \E j \in 1..Len(active) :
                /\ lastStep.edges[i].StartY < active[j].StartY
                /\ active[j].StartY < nSubpixelYCurrent

\* the sub-scanlines the sweep has covered: filled into the coverage buffer,
\* or inside an emitted trapezoid
Swept ==
    filled \cup UNION { t.yTop..(t.yBottom - 1) : t \in AddedTrapezoids }

\* C22: the sweep loop terminates: every iteration (trapezoid run, single
\* sub-scanline, jump to nSubpixelYNextInactive) leaves yCurrent larger
\* than it found it, and yCurrent never exceeds nSubpixelYBottom, the
\* largest EndY: with no active edge above nSubpixelYBottom there is an
\* inactive edge to jump to that starts above it too; the sweep ends with
\* yCurrent = nSubpixelYBottom
C22_SweepTerminates ==
    /\ lastStep.kind # "none" => lastStep.from < nSubpixelYCurrent
    /\ pc = "loop" =>
          /\ nSubpixelYCurrent <= nSubpixelYBottom
          /\ nSubpixelYCurrent < nSubpixelYBottom /\ active = << >>
             => nSubpixelYNextInactive < nSubpixelYBottom
    /\ pc = "done" /\ lastStep.kind # "none" => nSubpixelYCurrent = nSubpixelYBottom

\* a sweep has ended after trapezoid runs, filled sub-scanlines and a jump
\* over sub-scanlines without an active edge
C22_Witness ==
    /\ pc = "done"
    /\ nSubpixelYCurrent = nSubpixelYBottom
    /\ AddedTrapezoids # {}
    /\ filled # {}
    /\ \E y \in 0..(nSubpixelYBottom - 1) :
          /\ y \notin Swept
          /\ \E z \in Swept : z < y
          /\ \E z \in Swept : z > y

\* the advance of a call ends at or above the end of the edge
WithinEdge(pEdge, nSubpixelYAdvance) ==
    nSubpixelYCurrent + nSubpixelYAdvance <= pEdge.EndY

\* C26 as stated: every call of AdvanceDDAMultipleSteps of an iteration, by
\* the recognizer or by OutputTrapezoids, advances its left and its right
\* edge no further than the edge's own EndY
C26_AdvanceWithinBothEdges ==
    /\ \A k \in 1..Len(RecognizerCalls) :
          /\ WithinEdge(RecognizerCalls[k].pEdgeLeft, RecognizerCalls[k].nSubpixelYAdvance)
          /\ WithinEdge(RecognizerCalls[k].pEdgeRight, RecognizerCalls[k].nSubpixelYAdvance)
    /\ \A k \in 1..Len(EmitterCalls) :
          /\ WithinEdge(EmitterCalls[k].pEdgeLeft, EmitterCalls[k].nSubpixelYAdvance)
          /\ WithinEdge(EmitterCalls[k].pEdgeRight, EmitterCalls[k].nSubpixelYAdvance)

\* C26 amended: the recognizer advances the left edge of a call no further
\* than its EndY, OutputTrapezoids both edges
C26_AdvanceWithinLeftEdge ==
    /\ \A k \in 1..Len(RecognizerCalls) :
          WithinEdge(RecognizerCalls[k].pEdgeLeft, RecognizerCalls[k].nSubpixelYAdvance)
    /\ \A k \in 1..Len(EmitterCalls) :
          /\ WithinEdge(EmitterCalls[k].pEdgeLeft, EmitterCalls[k].nSubpixelYAdvance)
          /\ WithinEdge(EmitterCalls[k].pEdgeRight, EmitterCalls[k].nSubpixelYAdvance)

\* floor(2^31 / a) for a >= 1
TwoTo31Over(a) == ((INT_MAX - (a - 1)) \div a) + 1

\* a * b is an INT, for a >= 0
ProductFits(a, b) ==
    \/ a = 0
    \/ b >= 0 /\ b <= INT_MAX \div a
    \/ b < 0 /\ -b <= TwoTo31Over(a)

\* x + p is an INT
SumFits(x, p) ==
    IF p >= 0 THEN x <= INT_MAX - p ELSE x >= INT_MIN - p

\* X + nSubpixelYAdvance*Dx of the edge is computed without overflow
AdvanceFits(pEdge, nSubpixelYAdvance) ==
    /\ ProductFits(nSubpixelYAdvance, pEdge.Dx)
    /\ SumFits(pEdge.X, nSubpixelYAdvance * pEdge.Dx)

\* every point of the path and every active edge has its coordinates in
\* [-2^26, 2^26]
CoordinatesInRange ==
    /\ \A i \in 1..Len(rgpt) : \A j \in 1..Len(rgpt[i]) :
          /\ abs(rgpt[i][j].x) <= TwoTo26
          /\ abs(rgpt[i][j].y) <= TwoTo26
    /\ \A i \in 1..Len(active) :
          /\ abs(active[i].X) <= TwoTo26
          /\ abs(active[i].StartY) <= TwoTo26
          /\ abs(active[i].EndY) <= TwoTo26

\* C23: with every coordinate in [-2^26, 2^26], no call of
\* AdvanceDDAMultipleSteps of an iteration, by the recognizer or by
\* OutputTrapezoids, overflows an INT in X + nSubpixelYAdvance*Dx, for its
\* left or its right edge
C23_AdvanceDoesNotOverflow ==
    CoordinatesInRange =>
        /\ \A k \in 1..Len(RecognizerCalls) :
              /\ AdvanceFits(RecognizerCalls[k].pEdgeLeft, RecognizerCalls[k].nSubpixelYAdvance)
              /\ AdvanceFits(RecognizerCalls[k].pEdgeRight, RecognizerCalls[k].nSubpixelYAdvance)
        /\ \A k \in 1..Len(EmitterCalls) :
              /\ AdvanceFits(EmitterCalls[k].pEdgeLeft, EmitterCalls[k].nSubpixelYAdvance)
              /\ AdvanceFits(EmitterCalls[k].pEdgeRight, EmitterCalls[k].nSubpixelYAdvance)

\* the AddTrapezoid calls of the iteration just made, when it took the
\* trapezoid branch: the newest sink entries, one for every pair of the
\* active list the iteration started with
PairsBefore == Len(lastStep.before) \div 2
LastTrapezoid(k) == sink[Len(sink) - PairsBefore + k]
TopOf(pEdge) == [X |-> pEdge.X, Error |-> pEdge.Error, ErrorDown |-> pEdge.ErrorDown]

\* the sub-scanlines below nSubpixelYCurrent on which an edge of the path is
\* live
LiveRows(store) ==
    { y \in 0..(nSubpixelYCurrent - 1) : \E i \in 1..Len(store) : IsLive(store[i], y) }

\* C24: an iteration that moved nSubpixelYCurrent on the trapezoid branch
\* called AddTrapezoid exactly once for every pair (1st-2nd, 3rd-4th, ...) of
\* its active list, in order, each for the rows from the old to the new
\* nSubpixelYCurrent and with the pair's positions at the top; every other
\* iteration with an active edge filled its sub-scanline into the coverage
\* buffer and moved on by one; so every sub-scanline passed on which an edge
\* is live is inside an emitted trapezoid or was filled
C24_NoRowPassedWithoutOutput ==
    pc = "loop" =>
        /\ lastStep.kind = "trapezoid" =>
              /\ nSubpixelYCurrent >= lastStep.from + c_nShiftSize
              /\ PairsBefore >= 1
              /\ Len(sink) >= PairsBefore
              /\ \A k \in 1..PairsBefore :
                    /\ LastTrapezoid(k).kind = "AddTrapezoid"
                    /\ LastTrapezoid(k).trap.yTop = lastStep.from
                    /\ LastTrapezoid(k).trap.yBottom = nSubpixelYCurrent
                    /\ LastTrapezoid(k).trap.xTopLeft = TopOf(lastStep.before[2 * k - 1])
                    /\ LastTrapezoid(k).trap.xTopRight = TopOf(lastStep.before[2 * k])
              /\ Len(sink) > PairsBefore =>
                    ~(/\ sink[Len(sink) - PairsBefore].kind = "AddTrapezoid"
                      /\ sink[Len(sink) - PairsBefore].trap.yBottom > lastStep.from)
        /\ lastStep.kind = "complex" =>
              /\ lastStep.before # << >>
              /\ nSubpixelYCurrent = lastStep.from + 1
              /\ lastStep.from \in filled
        /\ lastStep.kind = "empty" => lastStep.before = << >>
        /\ LiveRows(FixedPointPathEnumerate(rgpt)) \subseteq Swept

\* a trapezoid iteration over two pairs, after sub-scanlines were filled
C24_Witness ==
    /\ pc = "loop"
    /\ lastStep.kind = "trapezoid"
    /\ PairsBefore >= 2
    /\ filled # {}
    /\ LastTrapezoid(2).kind = "AddTrapezoid"

\* C25: at a head of the loop with nSubpixelYCurrent on a pixel boundary the
\* coverage buffer is empty, and at any head it holds only sub-scanlines
\* filled in the pixel row of nSubpixelYCurrent; the coverage an
\* AddComplexScan call passes was filled on sub-scanlines of the row it
\* names, also when the call is made by a jump over rows without edges or by
\* the flush after the loop
C25_BufferEmptyOnPixelBoundary ==
    /\ pc = "loop" /\ nSubpixelYCurrent % c_nShiftSize = 0 => m_coverageBuffer = {}
    /\ pc = "loop" =>
          \A iv \in m_coverageBuffer :
              /\ iv.y \in filled
              /\ iv.y < nSubpixelYCurrent
              /\ iv.y \div c_nShiftSize = nSubpixelYCurrent \div c_nShiftSize
    /\ \A scan \in LastComplexScan :
          \A iv \in scan.coverage :
              /\ iv.y \in filled
              /\ iv.y \div c_nShiftSize = scan.nPixelY

\* a head of the loop on a pixel boundary just after the row above was
\* filled to its last sub-scanline and flushed, in a sweep that before
\* flushed a row it left by a jump (its last sub-scanline was never filled)
C25_Witness ==
    /\ pc = "loop"
    /\ nSubpixelYCurrent % c_nShiftSize = 0
    /\ lastStep.kind = "complex"
    /\ m_coverageBuffer = {}
    /\ sink[Len(sink)].kind = "AddComplexScan"
    /\ sink[Len(sink)].coverage # {}
    /\ \E k \in 1..(Len(sink) - 1) :
          /\ sink[k].kind = "AddComplexScan"
          /\ sink[k].coverage # {}
          /\ (sink[k].nPixelY * c_nShiftSize + c_nShiftMask) \notin filled

====
